---- MODULE Spec2Model ----
(***************************************************************************)
(* Model of the authentication centre of the S3 gateway (package auth,     *)
(* type Center), of the user-auth middleware that calls it                 *)
(* (attachNewUserAuth) and of the gateway application's lifecycle.         *)
(*                                                                         *)
(* Byte strings are sequences of numbers 0..255, text is a sequence of     *)
(* one-character strings, a Go error is the sequence of its messages       *)
(* (outermost first) and the nil error is the empty sequence.              *)
(***************************************************************************)
EXTENDS Integers, Sequences, FiniteSets, TLC

(***************************************************************************)
(* Bounds of the model.                                                    *)
(***************************************************************************)
\* RSA payload capacity in bytes of the toy cipher (encrypt fails above it)
MaxPayload == 5
\* number of distinct token-encryption keypairs the environment can install
NumUserKeys == 2
\* longest request body, in bytes
MaxBodyLen == 2
\* how many changes are made to a request between the client and the gateway
MaxTamper == 1
\* how many random seeds the cipher draws from
NumSeeds == 1
\* how many goroutines call into the Center at the same time
NumCallers == 2
\* how many seconds pass between two calls on the same request
MaxTicks == 1
\* how often the worker's timer fires
MaxReBalance == 2

(***************************************************************************)
(* Go values.                                                              *)
(***************************************************************************)
\* the nil error
NilErr == <<>>

\* errors.New(msg)
New(msg) == <<msg>>

\* pkg/errors.Wrap(err, msg): nil when err is nil, the annotated error otherwise
Wrap(err, msg) == IF err = NilErr THEN NilErr ELSE <<msg>> \o err

\* a *service.BearerTokenMsg: the nil pointer, or a message with its fields
NilToken == [set |-> FALSE, msg |-> <<>>]
Tok(fields) == [set |-> TRUE, msg |-> fields]

\* a nil *rsa.PrivateKey / *ecdsa.PrivateKey
NilKey == 0

(***************************************************************************)
(* encoding/hex                                                            *)
(***************************************************************************)
HexDigits == <<"0", "1", "2", "3", "4", "5", "6", "7",
               "8", "9", "a", "b", "c", "d", "e", "f">>
HexUpper == <<"0", "1", "2", "3", "4", "5", "6", "7",
              "8", "9", "A", "B", "C", "D", "E", "F">>

\* value of one hexadecimal digit, -1 when c is none
HexVal(c) ==
  IF \E i \in 1..16 : HexDigits[i] = c
    THEN (CHOOSE i \in 1..16 : HexDigits[i] = c) - 1
    ELSE IF \E i \in 1..16 : HexUpper[i] = c
      THEN (CHOOSE i \in 1..16 : HexUpper[i] = c) - 1
      ELSE -1

RECURSIVE EncodeToString(_)
EncodeToString(bs) ==
  IF bs = <<>> THEN <<>>
  ELSE <<HexDigits[(bs[1] \div 16) + 1], HexDigits[(bs[1] % 16) + 1]>>
         \o EncodeToString(Tail(bs))

RECURSIVE HexBytes(_)
HexBytes(s) ==
  IF s = <<>> THEN <<>>
  ELSE <<HexVal(s[1]) * 16 + HexVal(s[2])>> \o HexBytes(SubSeq(s, 3, Len(s)))

\* hex.DecodeString: fails on an odd length or on a non-hexadecimal character
DecodeString(s) ==
  IF Len(s) % 2 # 0 \/ \E i \in 1..Len(s) : HexVal(s[i]) = -1
    THEN [err |-> New("encoding/hex: invalid input"), val |-> <<>>]
    ELSE [err |-> NilErr, val |-> HexBytes(s)]

(***************************************************************************)
(* service.BearerTokenMsg Marshal / Unmarshal: a length-prefixed encoding  *)
(* of the message's fields.                                                *)
(***************************************************************************)
Marshal(token) == [err |-> NilErr, val |-> <<Len(token.msg)>> \o token.msg]

Unmarshal(data) ==
  IF data # <<>> /\ data[1] = Len(data) - 1
    THEN [err |-> NilErr, val |-> Tok(Tail(data))]
    ELSE [err |-> New("proto: cannot parse bearer token"), val |-> NilToken]

(***************************************************************************)
(* zstd EncodeAll / DecodeAll, as a frame of run-length pairs behind a     *)
(* magic byte.                                                             *)
(***************************************************************************)
ZstdMagic == 40

\* length of the run of equal bytes at the head of bs (bs non-empty)
RECURSIVE RunLen(_)
RunLen(bs) ==
  IF Len(bs) >= 2 /\ bs[2] = bs[1] THEN 1 + RunLen(Tail(bs)) ELSE 1

RECURSIVE Runs(_)
Runs(bs) ==
  IF bs = <<>> THEN <<>>
  ELSE LET n == RunLen(bs)
       IN <<n, bs[1]>> \o Runs(SubSeq(bs, n + 1, Len(bs)))

RECURSIVE Repeat(_, _)
Repeat(b, n) == IF n = 0 THEN <<>> ELSE <<b>> \o Repeat(b, n - 1)

RECURSIVE Expand(_)
Expand(rs) ==
  IF rs = <<>> THEN <<>>
  ELSE Repeat(rs[2], rs[1]) \o Expand(SubSeq(rs, 3, Len(rs)))

EncodeAll(data) == <<ZstdMagic>> \o Runs(data)

DecodeAll(frame) ==
  IF /\ frame # <<>>
     /\ frame[1] = ZstdMagic
     /\ Len(frame) % 2 = 1
     /\ \A i \in 1..((Len(frame) - 1) \div 2) : frame[2 * i] >= 1
    THEN [err |-> NilErr, val |-> Expand(Tail(frame))]
    ELSE [err |-> New("zstd: invalid input"), val |-> <<>>]

(***************************************************************************)
(* Codec primitives of package auth: sha256Hash, encrypt, decrypt.         *)
(* The cipher prefixes the ciphertext with the key's fingerprint and the   *)
(* random seed and masks every payload byte with both, so that decryption  *)
(* under another key fails and a payload above the capacity is refused.    *)
(***************************************************************************)
RECURSIVE SumBytes(_)
SumBytes(bs) == IF bs = <<>> THEN 0 ELSE bs[1] + SumBytes(Tail(bs))

RECURSIVE MixBytes(_)
MixBytes(bs) == IF bs = <<>> THEN 7 ELSE (bs[1] + 31 * MixBytes(Tail(bs))) % 256

sha256Hash(data) == <<SumBytes(data) % 256, MixBytes(data)>>

Mask(pub, rnd) == (16 * pub + rnd) % 256

encrypt(pub, rnd, data) ==
  IF pub = NilKey \/ Len(data) > MaxPayload
    THEN [err |-> New("crypto/rsa: message too long for RSA public key size"),
          val |-> <<>>]
    ELSE [err |-> NilErr,
          val |-> <<pub, rnd>>
                    \o [i \in 1..Len(data) |-> (data[i] + Mask(pub, rnd)) % 256]]

decrypt(priv, data) ==
  IF priv = NilKey \/ Len(data) < 2 \/ data[1] # priv
    THEN [err |-> New("crypto/rsa: decryption error"), val |-> <<>>]
    ELSE [err |-> NilErr,
          val |-> [i \in 1..(Len(data) - 2) |->
                     (data[i + 2] + 256 - Mask(data[1], data[2])) % 256]]

(***************************************************************************)
(* Center: compress, decompress, packBearerToken, unpackBearerToken.       *)
(* keys is the Center's userAuthKeys field.                                *)
(***************************************************************************)
compress(data) == EncodeAll(data)

decompress(data) == DecodeAll(data)

NoCredential == [accessKeyID |-> <<>>, secretAccessKey |-> <<>>]

\* faulty variant: the secret is the hash of the compressed bytes
packSecretOfCompressed(keys, bearerToken, rnd) ==
  LET m == Marshal(bearerToken)
      e == encrypt(keys.PublicKey, rnd, compress(m.val))
  IN IF e.err # NilErr
       THEN NoCredential @@ [err |-> Wrap(e.err, "failed to encrypt bearer token bytes")]
       ELSE [accessKeyID |-> EncodeToString(e.val),
             secretAccessKey |-> EncodeToString(sha256Hash(compress(m.val))),
             err |-> NilErr]

packBearerToken(keys, bearerToken, rnd) ==
  LET m == Marshal(bearerToken)
  IN IF m.err # NilErr
       THEN NoCredential @@ [err |-> Wrap(m.err, "failed to marshal bearer token")]
       ELSE LET e == encrypt(keys.PublicKey, rnd, compress(m.val))
            IN IF e.err # NilErr
                 THEN NoCredential
                        @@ [err |-> Wrap(e.err, "failed to encrypt bearer token bytes")]
                 ELSE [accessKeyID |-> EncodeToString(e.val),
                       secretAccessKey |-> EncodeToString(sha256Hash(m.val)),
                       err |-> NilErr]

\* the stage unpackBearerToken ended at is kept with its result
Unpacked(token, secret, err, stage) ==
  [bearerToken |-> token, secretAccessKey |-> secret, err |-> err, stage |-> stage]

\* faulty variant: the error of decrypt is not looked at
unpackIgnoresDecryptError(keys, accessKeyID) ==
  LET h == DecodeString(accessKeyID)
  IN IF h.err # NilErr
       THEN Unpacked(NilToken, <<>>, Wrap(h.err, "failed to decode HEX string"), "hex")
       ELSE LET d == decrypt(keys.PrivateKey, h.val)
                z == decompress(d.val)
            IN IF z.err # NilErr
                 THEN Unpacked(NilToken, <<>>,
                               Wrap(z.err, "failed to decompress key ID"), "decompress")
                 ELSE LET u == Unmarshal(z.val)
                      IN IF u.err # NilErr
                           THEN Unpacked(NilToken, <<>>,
                                  Wrap(u.err, "failed to unmarshal embedded bearer token"),
                                  "unmarshal")
                           ELSE Unpacked(u.val, EncodeToString(sha256Hash(z.val)),
                                         NilErr, "done")

unpackBearerToken(keys, accessKeyID) ==
  LET h == DecodeString(accessKeyID)
  IN IF h.err # NilErr
       THEN Unpacked(NilToken, <<>>, Wrap(h.err, "failed to decode HEX string"), "hex")
       ELSE LET d == decrypt(keys.PrivateKey, h.val)
            IN IF d.err # NilErr
                 THEN Unpacked(NilToken, <<>>,
                               Wrap(d.err, "failed to decrypt key ID"), "decrypt")
                 ELSE LET z == decompress(d.val)
                      IN IF z.err # NilErr
                           THEN Unpacked(NilToken, <<>>,
                                         Wrap(z.err, "failed to decompress key ID"),
                                         "decompress")
                           ELSE LET u == Unmarshal(z.val)
                                IN IF u.err # NilErr
                                     THEN Unpacked(NilToken, <<>>,
                                            Wrap(u.err,
                                              "failed to unmarshal embedded bearer token"),
                                            "unmarshal")
                                     ELSE Unpacked(u.val,
                                            EncodeToString(sha256Hash(z.val)),
                                            NilErr, "done")

(***************************************************************************)
(* HTTP requests.  A request is                                            *)
(*   [query  : the values of the X-Amz-Algorithm query parameter,          *)
(*    host   : request.Host,                                               *)
(*    header : canonical header name -> sequence of values,                *)
(*    body   : request.Body]                                               *)
(* and a body is a reader over data that has delivered pos bytes and       *)
(* fails once failAt bytes are delivered (failAt = -1: it never fails);    *)
(* nil |-> TRUE is the nil Body.                                           *)
(***************************************************************************)
NoBody == [nil |-> TRUE, data |-> <<>>, pos |-> 0, failAt |-> -1]
Reader(data, failAt) == [nil |-> FALSE, data |-> data, pos |-> 0, failAt |-> failAt]

\* the bytes a consumer of the body still obtains before end of data or failure
Yield(body) ==
  IF body.nil THEN <<>>
  ELSE SubSeq(body.data, body.pos + 1,
              IF body.failAt = -1 THEN Len(body.data) ELSE body.failAt)

\* whether a consumer of the body ends on a read error
Fails(body) == ~body.nil /\ body.failAt # -1

\* url.Values.Get: the first value of the parameter, "" when there is none
QueryGet(query) == IF query = <<>> THEN "" ELSE query[1]

\* whether the header is there with a value
HasHeader(header, name) == name \in DOMAIN header /\ header[name] # <<>>

\* http.Header.Get: the first value, the empty text when there is none
\* (HeaderGet for values that are words, HeaderGetText for values spelt out)
HeaderGet(header, name) == IF HasHeader(header, name) THEN header[name][1] ELSE ""
HeaderGetText(header, name) ==
  IF HasHeader(header, name) THEN header[name][1] ELSE <<>>

Put(header, name, values) ==
  [k \in DOMAIN header \cup {name} |-> IF k = name THEN values ELSE header[k]]

Drop(header, name) == [k \in DOMAIN header \ {name} |-> header[k]]

\* canonical header names and their lower-case forms, in the order of the
\* lower-case forms (the order sort.Strings gives the signed header list)
HeaderNames == <<"Authorization", "Content-Type", "Host", "User-Agent", "Via",
                 "X-Amz-Content-Sha256", "X-Amz-Date">>
LowerNames == <<"authorization", "content-type", "host", "user-agent", "via",
                "x-amz-content-sha256", "x-amz-date">>

\* strings.ToLower on a header name
ToLower(name) ==
  IF \E i \in 1..Len(HeaderNames) : HeaderNames[i] = name
    THEN LowerNames[CHOOSE i \in 1..Len(HeaderNames) : HeaderNames[i] = name]
    ELSE name

\* strings.EqualFold
EqualFold(a, b) == ToLower(a) = ToLower(b)

\* strings.Split(s, ";") on a text made of name tokens and ";" separators:
\* always at least one element, the empty text gives one empty element
RECURSIVE Split(_)
Split(s) ==
  IF \A i \in 1..Len(s) : s[i] # ";"
    THEN <<s>>
    ELSE LET i == CHOOSE i \in 1..Len(s) :
                    s[i] = ";" /\ \A j \in 1..(i - 1) : s[j] # ";"
         IN <<SubSeq(s, 1, i - 1)>> \o Split(SubSeq(s, i + 1, Len(s)))

\* strings.Join(names, ";")
RECURSIVE Join(_)
Join(names) ==
  IF names = <<>> THEN <<>>
  ELSE IF Len(names) = 1 THEN <<names[1]>>
  ELSE <<names[1], ";">> \o Join(Tail(names))

(***************************************************************************)
(* time.Parse("20060102T150405Z", s) and the signer's two time formats.    *)
(* A time is the index of its text; the last one is the signer's clock.    *)
(***************************************************************************)
DateStrings == <<"20200101T000000Z", "20200102T000000Z", "20261105T120000Z">>
ShortDates == <<"20200101", "20200102", "20261105">>

ParseTime(s) ==
  IF \E i \in 1..Len(DateStrings) : DateStrings[i] = s
    THEN [err |-> NilErr, t |-> CHOOSE i \in 1..Len(DateStrings) : DateStrings[i] = s]
    ELSE [err |-> New("parsing time: cannot parse"), t |-> 0]

FormatTime(t) == DateStrings[t]
FormatShortTime(t) == ShortDates[t]

\* the clock of the gateway, counted from the second in which the client
\* signs the request in hand
VARIABLE now

\* the time at which the client signs, and time.Now() in the signer
ClientTime == 1
CurrentTime == now

(***************************************************************************)
(* The Authorization header value and authorizationFieldRegexp.            *)
(***************************************************************************)
AuthScheme == "AWS4-HMAC-SHA256"

\* a v4 signature: the HMAC chain as the tuple of everything that enters it
NoSig == [secret |-> <<>>, time |-> 0, region |-> "", service |-> "", host |-> "",
          uri |-> "", headers |-> <<>>, digest |-> <<>>, flipped |-> FALSE]

AuthValue(scheme, akid, date, region, service, signedHeaders, signature) ==
  [scheme |-> scheme, access_key_id |-> akid, date |-> date, region |-> region,
   service |-> service, signed_header_fields |-> signedHeaders,
   v4_signature |-> signature]

NoSubmatches ==
  [n |-> 0, access_key_id |-> <<>>, date |-> "", region |-> "", service |-> "",
   signed_header_fields |-> <<>>, v4_signature |-> NoSig]

\* whether authorizationFieldRegexp matches the value: the literal parts are
\* there, [^/]+ captures are not empty and hold no slash, [^/]* may be empty
RegexpMatches(v) ==
  /\ v.scheme = AuthScheme
  /\ v.access_key_id # <<>>
  /\ \A i \in 1..Len(v.access_key_id) : v.access_key_id[i] # "/"
  /\ v.date # ""
  /\ v.service # ""

\* regexpSubmatcher.getSubmatches: the named captures, none without a match
getSubmatches(v) ==
  IF RegexpMatches(v)
    THEN [n |-> 6, access_key_id |-> v.access_key_id, date |-> v.date,
          region |-> v.region, service |-> v.service,
          signed_header_fields |-> v.signed_header_fields,
          v4_signature |-> v.v4_signature]
    ELSE NoSubmatches

(***************************************************************************)
(* aws-sdk-go signer/v4: Signer.Sign(request, body, service, region, time) *)
(* with static credentials (accessKeyID, secretAccessKey).                 *)
(***************************************************************************)
\* headers the signer never signs
IgnoredHeaders == {"Authorization", "User-Agent"}

\* services whose requests get the X-Amz-Content-Sha256 header
ContentSha256Services == {"s3", "glacier"}

RequestURI == "/bucket/object"

Canonical(lower) ==
  HeaderNames[CHOOSE i \in 1..Len(LowerNames) : LowerNames[i] = lower]

\* the lower-case names of the headers that are signed, sorted
SignedNames(header) ==
  LET signed(n) == n = "host"
                     \/ (Canonical(n) \in DOMAIN header
                         /\ Canonical(n) \notin IgnoredHeaders)
  IN SelectSeq(LowerNames, signed)

Sign(request, payload, service, region, signTime, accessKeyID, secretAccessKey) ==
  LET \* a request that carries an Authorization header counts as signed
      \* already and is signed again at the signer's current time
      t == IF HasHeader(request.header, "Authorization")
             THEN CurrentTime ELSE signTime
      h1 == Put(request.header, "X-Amz-Date", <<FormatTime(t)>>)
      given == HeaderGetText(h1, "X-Amz-Content-Sha256")
      digest == IF given # <<>> THEN given ELSE EncodeToString(sha256Hash(payload))
      h2 == IF given = <<>> /\ service \in ContentSha256Services
              THEN Put(h1, "X-Amz-Content-Sha256", <<digest>>) ELSE h1
      names == SignedNames(h2)
      nameSet == {names[i] : i \in 1..Len(names)}
      signature ==
        [secret |-> secretAccessKey, time |-> t, region |-> region,
         service |-> service, host |-> request.host, uri |-> RequestURI,
         headers |-> [n \in nameSet |->
                        IF n = "host" THEN <<request.host>> ELSE h2[Canonical(n)]],
         digest |-> digest, flipped |-> FALSE]
      auth == AuthValue(AuthScheme, accessKeyID, FormatShortTime(t), region,
                        service, Join(names), signature)
  IN IF accessKeyID = <<>> \/ secretAccessKey = <<>>
       THEN [err |-> New("EmptyStaticCreds: static credentials are empty"),
             request |-> request]
       ELSE [err |-> NilErr,
             request |-> [request EXCEPT !.header = Put(h2, "Authorization", <<auth>>)]]

(***************************************************************************)
(* readAndKeepBody                                                         *)
(***************************************************************************)
\* ioutil.ReadAll on the body: everything up to the end, or an error once
\* the reader fails, with the reader left where the failure occurred
ReadAll(body) ==
  IF body.failAt = -1
    THEN [err |-> NilErr, payload |-> SubSeq(body.data, body.pos + 1, Len(body.data)),
          body |-> [body EXCEPT !.pos = Len(body.data)]]
    ELSE [err |-> New("unexpected EOF"), payload |-> <<>>,
          body |-> [body EXCEPT !.pos = body.failAt]]

readAndKeepBody(request) ==
  IF request.body.nil
    THEN [err |-> NilErr, payload |-> <<>>, request |-> request]
    ELSE LET r == ReadAll(request.body)
         IN IF r.err # NilErr
              THEN [err |-> r.err, payload |-> <<>>,
                    request |-> [request EXCEPT !.body = r.body]]
              ELSE [err |-> NilErr, payload |-> r.payload,
                    request |-> [request EXCEPT !.body = Reader(r.payload, -1)]]

(***************************************************************************)
(* Center.AuthenticationPassed.  The result keeps, beside the returned     *)
(* token and error, the request as the call leaves it, the steps that ran, *)
(* the header set of the reference request before signing and the two      *)
(* signatures that were compared.                                          *)
(***************************************************************************)
Outcome(token, err, request, steps, refHeader, presented, recomputed) ==
  [bearerToken |-> token, err |-> err, request |-> request, steps |-> steps,
   refHeader |-> refHeader, presented |-> presented, recomputed |-> recomputed]

Failed(err, request, steps) ==
  Outcome(NilToken, err, request, steps, <<>>, NoSig, NoSig)

\* the presigned form: the X-Amz-Algorithm query parameter selects SigV4
\* (faulty variant: the query string is not looked at)
IsPresignedNever(request) == FALSE
IsPresigned(request) == QueryGet(request.query) = AuthScheme

\* the Authorization header values, none when the header is absent
AuthorizationField(request) ==
  IF "Authorization" \in DOMAIN request.header
    THEN request.header["Authorization"] ELSE <<>>

\* the count that is refused (faulty variant: only a missing header is)
WrongAuthorizationCountMissingOnly(authHeaderField) == Len(authHeaderField) = 0
WrongAuthorizationCount(authHeaderField) == Len(authHeaderField) # 1

\* the name a signed-header element spells, "" when it spells none
NameOf(element) == IF Len(element) = 1 THEN element[1] ELSE ""

\* faulty variant: the names are compared as they are spelt
FilterHeadersExact(header, signedHeaderFieldsNames) ==
  LET kept == {hfn \in DOMAIN header :
                 \E i \in 1..Len(signedHeaderFieldsNames) :
                   hfn = NameOf(signedHeaderFieldsNames[i])}
  IN [hfn \in kept |-> header[hfn]]

\* the headers of the request that are copied to the reference request
\* (faulty variant: every header is copied)
FilterHeadersAll(header, signedHeaderFieldsNames) == header
FilterHeaders(header, signedHeaderFieldsNames) ==
  LET kept == {hfn \in DOMAIN header :
                 \E i \in 1..Len(signedHeaderFieldsNames) :
                   EqualFold(hfn, NameOf(signedHeaderFieldsNames[i]))}
  IN [hfn \in kept |-> header[hfn]]

\* faulty variant: the token is returned whatever the comparison says
CompareSignaturesKeepsToken(request, bearerToken, steps, refHeader, presented, recomputed, err) ==
  Outcome(bearerToken,
          IF presented # recomputed
            THEN Wrap(err, "failed to pass authentication procedure") ELSE NilErr,
          request, steps, refHeader, presented, recomputed)

\* the last step: the comparison of the two signatures
CompareSignatures(request, bearerToken, steps, refHeader, presented, recomputed, err) ==
  IF presented # recomputed
    THEN Outcome(NilToken, Wrap(err, "failed to pass authentication procedure"),
                 request, steps, refHeader, presented, recomputed)
    ELSE Outcome(bearerToken, NilErr, request, steps, refHeader, presented, recomputed)

\* from the reference request on: body, signing, comparison
SignAndCompare(request, sms1, signedHeaderFieldsNames, signatureDateTime, unpacked) ==
  LET refHeader == FilterHeaders(request.header, signedHeaderFieldsNames)
      otherRequest == [request EXCEPT !.header = refHeader]
      kept == readAndKeepBody(request)
      steps == <<"presigned", "count", "parse", "split", "date", "unpack", "filter">>
  IN IF kept.err # NilErr
       THEN Outcome(NilToken, Wrap(kept.err, "failed to read out request body"),
                    kept.request, Append(steps, "body"), refHeader, NoSig, NoSig)
       ELSE LET signed == Sign(otherRequest, kept.payload, sms1.service, sms1.region,
                               signatureDateTime, sms1.access_key_id,
                               unpacked.secretAccessKey)
            IN IF signed.err # NilErr
                 THEN Outcome(NilToken,
                              Wrap(signed.err, "failed to sign temporary HTTP request"),
                              kept.request, steps \o <<"body", "sign">>,
                              refHeader, NoSig, NoSig)
                 ELSE LET sms2 == getSubmatches(signed.request.header["Authorization"][1])
                      IN CompareSignatures(kept.request, unpacked.bearerToken,
                                           steps \o <<"body", "sign", "compare">>,
                                           refHeader, sms1.v4_signature,
                                           sms2.v4_signature, signed.err)

AuthenticationPassed(keys, request) ==
  IF IsPresigned(request)
    THEN Failed(New("pre-signed form of request is not supported"),
                request, <<"presigned">>)
  ELSE LET authHeaderField == AuthorizationField(request) IN
  IF WrongAuthorizationCount(authHeaderField)
    THEN Failed(New("unsupported request: wrong length of Authorization header field"),
                request, <<"presigned", "count">>)
  ELSE LET sms1 == getSubmatches(authHeaderField[1]) IN
  IF sms1.n # 6
    THEN Failed(New("bad Authorization header field"),
                request, <<"presigned", "count", "parse">>)
  ELSE LET signedHeaderFieldsNames == Split(sms1.signed_header_fields) IN
  IF Len(signedHeaderFieldsNames) = 0
    THEN Failed(New("wrong format of signed headers part"),
                request, <<"presigned", "count", "parse", "split">>)
  ELSE LET parsed == ParseTime(HeaderGet(request.header, "X-Amz-Date")) IN
  IF parsed.err # NilErr
    THEN Failed(Wrap(parsed.err, "failed to parse x-amz-date header field"),
                request, <<"presigned", "count", "parse", "split", "date">>)
  ELSE LET unpacked == unpackBearerToken(keys, sms1.access_key_id) IN
  IF unpacked.err # NilErr
    THEN Failed(Wrap(unpacked.err, "failed to unpack bearer token"),
                request, <<"presigned", "count", "parse", "split", "date", "unpack">>)
  ELSE SignAndCompare(request, sms1, signedHeaderFieldsNames, parsed.t, unpacked)

(***************************************************************************)
(* Identity keys: refs.NewOwnerID and crypto.WIFEncode.  A key is a number *)
(* from 1 on; NeoFSKeyKinds tells for each which of the two derivations    *)
(* the libraries refuse.                                                   *)
(***************************************************************************)
NeoFSKeyKinds == <<"good", "good", "noOwnerID", "noWIF">>
NeoFSKeys == 1..Len(NeoFSKeyKinds)

\* the zero refs.OwnerID and the empty WIF string
NoOwnerID == <<>>
NoWIF == <<>>

NewOwnerID(publicKey) ==
  IF NeoFSKeyKinds[publicKey] = "noOwnerID"
    THEN [err |-> New("could not derive owner id"), val |-> NoOwnerID]
    ELSE [err |-> NilErr, val |-> <<"owner", publicKey>>]

WIFEncode(key) ==
  IF NeoFSKeyKinds[key] = "noWIF"
    THEN [err |-> New("could not encode wif"), val |-> NoWIF]
    ELSE [err |-> NilErr, val |-> <<"wif", key>>]

\* &key.PublicKey
PublicKey(key) == key

(***************************************************************************)
(* State.                                                                  *)
(***************************************************************************)
VARIABLES
  neofsKeys,     \* Center.neofsKeys: [PrivateKey, PublicKey]
  ownerID,       \* Center.ownerID
  wifString,     \* Center.wifString
  userAuthKeys,  \* Center.userAuthKeys: [PrivateKey, PublicKey]
  packed,        \* the last packBearerToken call: its token, key and result
  unpacked,      \* the last unpackBearerToken call: its argument and result
  stage,         \* of the request in hand: "idle", "signed", "handled"
  request,       \* the request in hand
  signedAs,      \* how the client signed the request in hand
  tampered,      \* what was done to the request since the client signed it
  before,        \* the request as the middleware received it, and the keys then
  auth,          \* what AuthenticationPassed returned for it
  served,        \* how often h.ServeHTTP was invoked for it
  ctxToken,      \* the value the handler found under BearerTokenContextKey
  retry,         \* a second AuthenticationPassed call on the same request
  call,          \* per goroutine: where its pack or unpack call stands
  app            \* the App: its context, goroutines, channels, timer and pool

centerVars == <<neofsKeys, ownerID, wifString, userAuthKeys>>
codecVars == <<packed, unpacked>>
requestVars ==
  <<stage, request, signedAs, tampered, before, auth, served, ctxToken, retry, now>>
vars == <<centerVars, codecVars, requestVars, call, app>>

(***************************************************************************)
(* Input domains.                                                          *)
(***************************************************************************)
UserKeys == 1..NumUserKeys

\* tokens: the last one does not fit the cipher's capacity once compressed
\* (two runs of one byte on top of its length byte)
Tokens == {Tok(<<5>>), Tok(<<5, 5>>), Tok(<<1, 2>>)}

NilKeys == [PrivateKey |-> NilKey, PublicKey |-> NilKey]

NoPacked == [called |-> FALSE, token |-> NilToken, key |-> NilKey,
             accessKeyID |-> <<>>, secretAccessKey |-> <<>>, err |-> NilErr]

NoUnpacked == [called |-> FALSE, accessKeyID |-> <<>>, key |-> NilKey,
               result |-> Unpacked(NilToken, <<>>, NilErr, "none")]

NoRequest == [query |-> <<>>, host |-> "", header |-> <<>>, body |-> NoBody]

NoSignedAs == [token |-> NilToken, key |-> NilKey, accessKeyID |-> <<>>,
               secretAccessKey |-> <<>>, rightSecret |-> FALSE,
               request |-> NoRequest]

NoBefore == [request |-> NoRequest, keys |-> NilKeys]

NoOutcome == Failed(NilErr, NoRequest, <<>>)

NoRetry == [called |-> FALSE, keys |-> NilKeys, out |-> NoOutcome]

(***************************************************************************)
(* NewCenter: no key is set, the codec instances exist.                    *)
(***************************************************************************)
NewCenter ==
  /\ neofsKeys = NilKeys
  /\ ownerID = NoOwnerID
  /\ wifString = NoWIF
  /\ userAuthKeys = NilKeys

InitCodec == packed = NoPacked /\ unpacked = NoUnpacked

InitRequest ==
  /\ stage = "idle"
  /\ request = NoRequest
  /\ signedAs = NoSignedAs
  /\ tampered = {}
  /\ before = NoBefore
  /\ auth = NoOutcome
  /\ served = 0
  /\ ctxToken = NilToken
  /\ retry = NoRetry
  /\ now = ClientTime

\* Center.zstdEncoder and Center.zstdDecoder: the two instances NewCenter
\* creates; the fields are never assigned again
zstdEncoder == "encoder of NewCenter"
zstdDecoder == "decoder of NewCenter"
NoInstance == "none"

Callers == 1..NumCallers

NoCall == [pc |-> "idle", data |-> <<>>, rnd |-> 0, using |-> NoInstance,
           accessKeyID |-> <<>>, secretAccessKey |-> <<>>,
           bearerToken |-> NilToken, err |-> NilErr]

InitCalls == call = [c \in Callers |-> NoCall]

\* newApp: the two channels are made and nothing runs yet; the pool is
\* connected
newApp ==
  app = [ctx |-> "live", server |-> "idle", worker |-> "idle", wait |-> "idle",
         webDone |-> 0, wrkDone |-> 0, tick |-> "none",
         cli |-> [state |-> "open", inReBalance |-> 0, started |-> 0, closes |-> 0]]

Init == NewCenter /\ InitCodec /\ InitRequest /\ InitCalls /\ newApp

(***************************************************************************)
(* Center.SetNeoFSKeys, Center.SetUserAuthKeys                             *)
(***************************************************************************)
SetNeoFSKeys(key) ==
  LET publicKey == PublicKey(key)
      oid == NewOwnerID(publicKey)
      wif == WIFEncode(key)
  IN /\ IF oid.err # NilErr
          THEN UNCHANGED <<neofsKeys, ownerID, wifString>>
          ELSE IF wif.err # NilErr
            THEN /\ neofsKeys' = [neofsKeys EXCEPT !.PrivateKey = key]
                 /\ UNCHANGED <<ownerID, wifString>>
            ELSE /\ neofsKeys' = [PrivateKey |-> key, PublicKey |-> publicKey]
                 /\ ownerID' = oid.val
                 /\ wifString' = wif.val
     /\ UNCHANGED <<userAuthKeys, codecVars, requestVars, call, app>>

SetUserAuthKeys(key) ==
  /\ userAuthKeys' = [PrivateKey |-> key, PublicKey |-> PublicKey(key)]
  /\ UNCHANGED <<neofsKeys, ownerID, wifString, codecVars, requestVars, call, app>>

(***************************************************************************)
(* Calls of packBearerToken and unpackBearerToken.  Neither reads nor      *)
(* writes a request, so the calls are taken between two requests.          *)
(***************************************************************************)
\* faulty variant: the call leaves the Center without its encryption keys
PackTokenDropsKeys(token, rnd) ==
  LET r == packBearerToken(userAuthKeys, token, rnd)
  IN /\ stage = "idle"
     /\ packed' = [called |-> TRUE, token |-> token, key |-> userAuthKeys.PublicKey,
                   accessKeyID |-> r.accessKeyID,
                   secretAccessKey |-> r.secretAccessKey, err |-> r.err]
     /\ userAuthKeys' = NilKeys
     /\ UNCHANGED <<neofsKeys, ownerID, wifString, unpacked, requestVars, call, app>>

PackToken(token, rnd) ==
  LET r == packBearerToken(userAuthKeys, token, rnd)
  IN /\ stage = "idle"
     /\ packed' = [called |-> TRUE, token |-> token, key |-> userAuthKeys.PublicKey,
                   accessKeyID |-> r.accessKeyID,
                   secretAccessKey |-> r.secretAccessKey, err |-> r.err]
     /\ UNCHANGED <<centerVars, unpacked, requestVars, call, app>>

UnpackToken(accessKeyID) ==
  /\ stage = "idle"
  /\ unpacked' = [called |-> TRUE, accessKeyID |-> accessKeyID,
                  key |-> userAuthKeys.PrivateKey,
                  result |-> unpackBearerToken(userAuthKeys, accessKeyID)]
  /\ UNCHANGED <<centerVars, packed, requestVars, call, app>>

(***************************************************************************)
(* The client: it holds the credential pair of the last successful         *)
(* packBearerToken call (or a wrong secret) and signs its request with the *)
(* same signer.  Whatever is added afterwards is not signed.               *)
(***************************************************************************)
ClientHost == "gw.example"
WrongSecret == <<"0", "0">>

\* the header sets a client sends beside the ones the signer adds
ClientHeaders ==
  { <<>>,
    [h \in {"Content-Type", "User-Agent"} |->
       IF h = "User-Agent" THEN <<"curl">> ELSE <<"text/plain">>] }

\* service and region of the credential scope
Scopes == { [service |-> "s3", region |-> "us-east-1"],
            [service |-> "iam", region |-> ""] }

\* request bodies: none, one that is read to its end, one whose read fails
RECURSIVE BodyBytes(_)
BodyBytes(n) == IF n = 0 THEN <<>> ELSE BodyBytes(n - 1) \o <<n>>

Bodies == { NoBody, Reader(BodyBytes(MaxBodyLen), -1),
            Reader(BodyBytes(MaxBodyLen), MaxBodyLen - 1) }

ClientRequest(secret, header, body, scope, proxied) ==
  /\ stage = "idle"
  /\ packed.called /\ packed.err = NilErr
  /\ LET unsent == [query |-> <<>>, host |-> ClientHost, header |-> header,
                    body |-> body]
         signed == Sign(unsent, body.data, scope.service, scope.region, ClientTime,
                        packed.accessKeyID, secret)
         \* a proxy on the way adds its Via header
         sent == IF proxied
                   THEN [signed.request EXCEPT
                           !.header = Put(@, "Via", <<"1.1 proxy">>)]
                   ELSE signed.request
     IN /\ signed.err = NilErr
        /\ request' = sent
        /\ signedAs' = [token |-> packed.token, key |-> packed.key,
                        accessKeyID |-> packed.accessKeyID,
                        secretAccessKey |-> secret,
                        rightSecret |-> (secret = packed.secretAccessKey),
                        request |-> sent]
  /\ stage' = "signed"
  /\ tampered' = {}
  /\ UNCHANGED <<centerVars, codecVars, before, auth, served, ctxToken, retry, now,
                 call, app>>

(***************************************************************************)
(* What happens to a request on its way: each step changes one thing.      *)
(***************************************************************************)
CanTamper == stage = "signed" /\ Cardinality(tampered) < MaxTamper

Tamper(tag, changed) ==
  /\ CanTamper
  /\ tag \notin tampered
  /\ request' = changed
  /\ tampered' = tampered \cup {tag}
  /\ UNCHANGED <<centerVars, codecVars, stage, signedAs, before, auth, served,
                 ctxToken, retry, now, call, app>>

\* the names the client signed, as header names of the request
SignedHeaderNames(req) ==
  LET names == Split(req.header["Authorization"][1].signed_header_fields)
  IN {hfn \in DOMAIN req.header \ {"Authorization"} :
        \E i \in 1..Len(names) : EqualFold(hfn, NameOf(names[i]))}

\* other values a header can be given
OtherValues(name) ==
  IF name = "X-Amz-Date" THEN {FormatTime(2), "yesterday"}
  ELSE IF name = "X-Amz-Content-Sha256" THEN {<<"f", "f">>}
  ELSE {"text/html"}

\* one character of the Signature field is flipped
TamperSignature ==
  /\ "Authorization" \in DOMAIN request.header
  /\ Len(request.header["Authorization"]) = 1
  /\ Tamper("signature",
            [request EXCEPT !.header["Authorization"][1].v4_signature.flipped = ~@])

\* a signed header gets another value
TamperSignedHeader ==
  /\ "Authorization" \in DOMAIN request.header
  /\ Len(request.header["Authorization"]) = 1
  /\ \E hfn \in SignedHeaderNames(request) :
       \E v \in OtherValues(hfn) :
         /\ request.header[hfn] # <<v>>
         /\ Tamper("signedHeader", [request EXCEPT !.header[hfn] = <<v>>])

\* the Host the request arrives with is another one
TamperHost == Tamper("host", [request EXCEPT !.host = "other.example"])

\* the query string gets an X-Amz-Algorithm parameter
TamperQuery ==
  \E alg \in {AuthScheme, "AWS4-HMAC-SHA1"} :
    Tamper("query", [request EXCEPT !.query = <<alg>>])

\* the Authorization header is dropped, or sent twice
TamperAuthorizationCount ==
  /\ "Authorization" \in DOMAIN request.header
  /\ \/ Tamper("authorizationCount",
               [request EXCEPT !.header = Drop(@, "Authorization")])
     \/ Tamper("authorizationCount",
               [request EXCEPT !.header["Authorization"] = @ \o @])

\* the Authorization header no longer follows the grammar
TamperAuthorizationGrammar ==
  /\ "Authorization" \in DOMAIN request.header
  /\ Len(request.header["Authorization"]) = 1
  /\ \/ Tamper("authorizationGrammar",
               [request EXCEPT !.header["Authorization"][1].scheme = "Basic"])
     \/ Tamper("authorizationGrammar",
               [request EXCEPT !.header["Authorization"][1].service = ""])

\* the SignedHeaders list is emptied, or names the Authorization header too
\* (the signer never signs that header, so the signature is the same)
TamperSignedHeaderList ==
  /\ "Authorization" \in DOMAIN request.header
  /\ Len(request.header["Authorization"]) = 1
  /\ \/ Tamper("signedHeaderList",
               [request EXCEPT
                  !.header["Authorization"][1].signed_header_fields = <<>>])
     \/ Tamper("signedHeaderList",
               [request EXCEPT
                  !.header["Authorization"][1].signed_header_fields =
                     <<"authorization", ";">> \o @])

\* the AccessKeyID is not what packBearerToken returned
TamperAccessKeyID ==
  /\ "Authorization" \in DOMAIN request.header
  /\ Len(request.header["Authorization"]) = 1
  /\ \E akid \in {<<"z", "z">>, <<"0", "1">>} :
       Tamper("accessKeyID",
              [request EXCEPT !.header["Authorization"][1].access_key_id = akid])

(***************************************************************************)
(* attachNewUserAuth: the middleware's handler.                            *)
(***************************************************************************)
\* whether the handler goes on to h.ServeHTTP after AuthenticationPassed
\* returned err: the error is logged and nothing else
CallsNext(err) == TRUE

Middleware ==
  /\ stage = "signed"
  /\ LET out == AuthenticationPassed(userAuthKeys, request)
     IN /\ before' = [request |-> request, keys |-> userAuthKeys]
        /\ auth' = out
        /\ request' = out.request
        /\ IF CallsNext(out.err)
             THEN served' = served + 1 /\ ctxToken' = out.bearerToken
             ELSE UNCHANGED <<served, ctxToken>>
  /\ stage' = "handled"
  /\ UNCHANGED <<centerVars, codecVars, signedAs, tampered, retry, now, call, app>>

\* AuthenticationPassed is called once more on the request the first call
\* left behind
Retry ==
  /\ stage = "handled"
  /\ ~retry.called
  /\ LET out == AuthenticationPassed(userAuthKeys, request)
     IN /\ retry' = [called |-> TRUE, keys |-> userAuthKeys, out |-> out]
        /\ request' = out.request
  /\ UNCHANGED <<centerVars, codecVars, stage, signedAs, tampered, before, auth,
                 served, ctxToken, now, call, app>>

\* a second passes after the first call
Tick ==
  /\ stage = "handled"
  /\ ~retry.called
  /\ now < ClientTime + MaxTicks
  /\ now < Len(DateStrings)
  /\ now' = now + 1
  /\ UNCHANGED <<centerVars, codecVars, stage, request, signedAs, tampered, before,
                 auth, served, ctxToken, retry, call, app>>

\* the request is done with, the next one can come
NextRequest ==
  /\ stage = "handled"
  /\ stage' = "idle"
  /\ request' = NoRequest
  /\ signedAs' = NoSignedAs
  /\ tampered' = {}
  /\ before' = NoBefore
  /\ auth' = NoOutcome
  /\ served' = 0
  /\ ctxToken' = NilToken
  /\ retry' = NoRetry
  /\ now' = ClientTime
  /\ UNCHANGED <<centerVars, codecVars, call, app>>

(***************************************************************************)
(* The gateway serving requests: keys are installed, credentials issued,   *)
(* requests signed, changed on their way and handled by the middleware.    *)
(***************************************************************************)
Next ==
  \/ \E key \in UserKeys : SetUserAuthKeys(key)
  \/ \E token \in Tokens, rnd \in {1} : PackToken(token, rnd)
  \/ \E secret \in {packed.secretAccessKey, WrongSecret},
        header \in ClientHeaders, body \in Bodies, scope \in Scopes,
        proxied \in BOOLEAN :
       ClientRequest(secret, header, body, scope, proxied)
  \/ TamperSignature
  \/ TamperSignedHeader
  \/ TamperHost
  \/ TamperQuery
  \/ TamperAuthorizationCount
  \/ TamperAuthorizationGrammar
  \/ TamperSignedHeaderList
  \/ TamperAccessKeyID
  \/ Middleware
  \/ NextRequest

Spec == Init /\ [][Next]_vars

(***************************************************************************)
(* The same with every request handed to AuthenticationPassed twice, the   *)
(* Center keeping the keys it was given at its start.                      *)
(***************************************************************************)
NextRetry ==
  \/ \E key \in UserKeys :
       /\ userAuthKeys = NilKeys
       /\ SetUserAuthKeys(key)
  \/ \E token \in Tokens, rnd \in {1} : PackToken(token, rnd)
  \/ \E secret \in {packed.secretAccessKey, WrongSecret},
        header \in ClientHeaders, body \in Bodies, scope \in Scopes,
        proxied \in BOOLEAN :
       ClientRequest(secret, header, body, scope, proxied)
  \/ TamperSignature
  \/ TamperSignedHeader
  \/ TamperHost
  \/ TamperQuery
  \/ TamperAuthorizationCount
  \/ TamperAuthorizationGrammar
  \/ TamperSignedHeaderList
  \/ TamperAccessKeyID
  \/ Middleware
  \/ Tick
  \/ Retry
  \/ NextRequest

SpecRetry == Init /\ [][NextRetry]_vars

(***************************************************************************)
(* The Center used directly: keys are installed and replaced, tokens are   *)
(* packed and unpacked, and requests signed with the packed credential are *)
(* authenticated as they were sent.                                        *)
(***************************************************************************)
\* a text with its hexadecimal digits in upper case
UpperHex(s) == [i \in 1..Len(s) |-> IF HexVal(s[i]) = -1 THEN s[i]
                                     ELSE HexUpper[HexVal(s[i]) + 1]]

\* AccessKeyIDs handed to unpackBearerToken: the packed one (packed under
\* the key of that time), the same in upper case, text that is no
\* hexadecimal, and under the key in place a ciphertext of something that
\* is no compressed frame and one of a frame that holds no token
AccessKeyIDs ==
  {packed.accessKeyID, UpperHex(packed.accessKeyID), <<"z", "z">>, <<"4">>,
   EncodeToString(encrypt(userAuthKeys.PublicKey, 1, <<9>>).val),
   EncodeToString(encrypt(userAuthKeys.PublicKey, 1, compress(<<3>>)).val)}

NextCenter ==
  \/ \E key \in NeoFSKeys : SetNeoFSKeys(key)
  \/ \E key \in UserKeys : SetUserAuthKeys(key)
  \/ \E token \in Tokens, rnd \in 1..NumSeeds : PackToken(token, rnd)
  \/ \E accessKeyID \in AccessKeyIDs : UnpackToken(accessKeyID)
  \/ \E scope \in {s \in Scopes : s.service = "s3"} :
       ClientRequest(packed.secretAccessKey, <<>>, NoBody, scope, FALSE)
  \/ Middleware
  \/ NextRequest

SpecCenter == Init /\ [][NextCenter]_vars


(***************************************************************************)
(* Goroutines calling packBearerToken and unpackBearerToken on the same    *)
(* Center at the same time.  What a call computes on its own values is one *)
(* step; zstdEncoder.EncodeAll and zstdDecoder.DecodeAll take time, so     *)
(* entering and leaving them are two steps.  The Center holds no lock.     *)
(***************************************************************************)
Goes(c, to) ==
  /\ call' = [call EXCEPT ![c] = to]
  /\ UNCHANGED <<centerVars, codecVars, requestVars, app>>

\* packBearerToken up to the call of compress
PackBegin(c, token, rnd) ==
  /\ call[c].pc = "idle"
  /\ LET m == Marshal(token)
     IN Goes(c, [NoCall EXCEPT !.pc = "compress", !.data = m.val, !.rnd = rnd])

\* compress: EncodeAll on the Center's encoder is entered
EncodeAllBegin(c) ==
  /\ call[c].pc = "compress"
  /\ Goes(c, [call[c] EXCEPT !.pc = "encoding", !.using = zstdEncoder])

\* EncodeAll returns; packBearerToken encrypts, encodes and returns
EncodeAllEnd(c) ==
  /\ call[c].pc = "encoding"
  /\ LET e == encrypt(userAuthKeys.PublicKey, call[c].rnd, compress(call[c].data))
     IN IF e.err # NilErr
          THEN Goes(c, [NoCall EXCEPT
                          !.pc = "done",
                          !.err = Wrap(e.err, "failed to encrypt bearer token bytes")])
          ELSE Goes(c, [NoCall EXCEPT
                          !.pc = "done",
                          !.accessKeyID = EncodeToString(e.val),
                          !.secretAccessKey =
                             EncodeToString(sha256Hash(call[c].data))])

\* unpackBearerToken up to the call of decompress
UnpackBegin(c, accessKeyID) ==
  /\ call[c].pc = "idle"
  /\ LET h == DecodeString(accessKeyID)
         d == decrypt(userAuthKeys.PrivateKey, h.val)
     IN IF h.err # NilErr
          THEN Goes(c, [NoCall EXCEPT
                          !.pc = "done",
                          !.err = Wrap(h.err, "failed to decode HEX string")])
          ELSE IF d.err # NilErr
            THEN Goes(c, [NoCall EXCEPT
                            !.pc = "done",
                            !.err = Wrap(d.err, "failed to decrypt key ID")])
            ELSE Goes(c, [NoCall EXCEPT !.pc = "decompress", !.data = d.val])

\* decompress: DecodeAll on the Center's decoder is entered
DecodeAllBegin(c) ==
  /\ call[c].pc = "decompress"
  /\ Goes(c, [call[c] EXCEPT !.pc = "decoding", !.using = zstdDecoder])

\* DecodeAll returns; unpackBearerToken unmarshals, hashes and returns
DecodeAllEnd(c) ==
  /\ call[c].pc = "decoding"
  /\ LET z == decompress(call[c].data)
         u == Unmarshal(z.val)
     IN IF z.err # NilErr
          THEN Goes(c, [NoCall EXCEPT
                          !.pc = "done",
                          !.err = Wrap(z.err, "failed to decompress key ID")])
          ELSE IF u.err # NilErr
            THEN Goes(c, [NoCall EXCEPT
                            !.pc = "done",
                            !.err = Wrap(u.err,
                                         "failed to unmarshal embedded bearer token")])
            ELSE Goes(c, [NoCall EXCEPT
                            !.pc = "done",
                            !.bearerToken = u.val,
                            !.secretAccessKey = EncodeToString(sha256Hash(z.val))])

\* the caller has its result and is free for the next call
Return(c) ==
  /\ call[c].pc = "done"
  /\ Goes(c, NoCall)

\* AccessKeyIDs of concurrent requests: packed under the key in place, or
\* no hexadecimal text
ConcurrentAccessKeyIDs ==
  {packBearerToken(userAuthKeys, token, 1).accessKeyID : token \in Tokens}
    \cup {<<"z", "z">>}

NextCalls ==
  \/ \E key \in UserKeys :
       /\ userAuthKeys = NilKeys
       /\ SetUserAuthKeys(key)
  \/ \E c \in Callers, token \in Tokens, rnd \in 1..NumSeeds : PackBegin(c, token, rnd)
  \/ \E c \in Callers : EncodeAllBegin(c)
  \/ \E c \in Callers : EncodeAllEnd(c)
  \/ \E c \in Callers, accessKeyID \in ConcurrentAccessKeyIDs :
       UnpackBegin(c, accessKeyID)
  \/ \E c \in Callers : DecodeAllBegin(c)
  \/ \E c \in Callers : DecodeAllEnd(c)
  \/ \E c \in Callers : Return(c)

SpecCalls == Init /\ [][NextCalls]_vars

(***************************************************************************)
(* App: Server, Worker and Wait (cmd/gate/app.go).  app.webDone and        *)
(* app.wrkDone count the close calls on the two channels (nothing is ever  *)
(* sent on them), app.tick is the worker's timer, app.cli the connection   *)
(* pool with the ReBalance calls in flight, the ReBalance calls started    *)
(* and the Close calls returned.                                           *)
(***************************************************************************)
AppStep(to) ==
  /\ app' = to
  /\ UNCHANGED <<centerVars, codecVars, requestVars, call>>

\* the context handed to Server and Worker is cancelled
Cancel ==
  /\ app.ctx = "live"
  /\ AppStep([app EXCEPT !.ctx = "cancelled"])

\* Server is called: it listens, starts serving and waits on ctx.Done()
Server ==
  /\ app.server = "idle"
  /\ AppStep([app EXCEPT !.server = "serving"])

\* <-ctx.Done() returns and srv.Shutdown is called
ServerShutdown ==
  /\ app.server = "serving"
  /\ app.ctx = "cancelled"
  /\ AppStep([app EXCEPT !.server = "shutdown"])

\* srv.Shutdown has returned: close(a.webDone)
ServerClose ==
  /\ app.server = "shutdown"
  /\ AppStep([app EXCEPT !.server = "done", !.webDone = @ + 1])

\* Worker is called: the timer is made and the loop entered
Worker ==
  /\ app.worker = "idle"
  /\ AppStep([app EXCEPT !.worker = "select", !.tick = "armed"])

\* the timer fires
TimerFires ==
  /\ app.tick = "armed"
  /\ app.cli.started < MaxReBalance
  /\ AppStep([app EXCEPT !.tick = "fired"])

\* select takes <-tick.C: ReBalance is called
WorkerReBalance ==
  /\ app.worker = "select"
  /\ app.tick = "fired"
  /\ AppStep([app EXCEPT !.worker = "rebalance", !.tick = "drained",
                         !.cli.inReBalance = @ + 1, !.cli.started = @ + 1])

\* ReBalance returns; cancel(), tick.Reset and back to the select
WorkerReBalanced ==
  /\ app.worker = "rebalance"
  /\ AppStep([app EXCEPT !.worker = "select", !.tick = "armed",
                         !.cli.inReBalance = @ - 1])

\* select takes <-ctx.Done(): break loop
WorkerBreak ==
  /\ app.worker = "select"
  /\ app.ctx = "cancelled"
  /\ AppStep([app EXCEPT !.worker = "stop"])

\* faulty variant: wrkDone is closed as soon as cli.Close is called
WorkerStopClosesDone ==
  /\ app.worker = "stop"
  /\ AppStep([app EXCEPT !.worker = "closing", !.tick = "stopped",
                         !.cli.state = "closing", !.wrkDone = @ + 1])

\* tick.Stop() and the call of cli.Close()
WorkerStop ==
  /\ app.worker = "stop"
  /\ AppStep([app EXCEPT !.worker = "closing", !.tick = "stopped",
                         !.cli.state = "closing"])

\* cli.Close() returns
WorkerClosed ==
  /\ app.worker = "closing"
  /\ AppStep([app EXCEPT !.worker = "closed", !.cli.state = "closed",
                         !.cli.closes = @ + 1])

\* close(a.wrkDone)
WorkerClose ==
  /\ app.worker = "closed"
  /\ AppStep([app EXCEPT !.worker = "done", !.wrkDone = @ + 1])

\* Wait is called and reaches its select
Wait ==
  /\ app.wait = "idle"
  /\ AppStep([app EXCEPT !.wait = "select"])

\* faulty variant: Wait returns once the worker has stopped
WaitWrkDoneReturns ==
  /\ app.wait = "select"
  /\ app.wrkDone > 0
  /\ AppStep([app EXCEPT !.wait = "returned"])

\* case <-a.wrkDone: a receive on a closed channel
WaitWrkDone ==
  /\ app.wait = "select"
  /\ app.wrkDone > 0
  /\ AppStep([app EXCEPT !.wait = "webDone"])

\* case <-a.webDone
WaitWebDone ==
  /\ app.wait = "select"
  /\ app.webDone > 0
  /\ AppStep([app EXCEPT !.wait = "wrkDone"])

\* the second receive, on the other channel: Wait returns
WaitReturn ==
  /\ \/ app.wait = "webDone" /\ app.webDone > 0
     \/ app.wait = "wrkDone" /\ app.wrkDone > 0
  /\ AppStep([app EXCEPT !.wait = "returned"])

NextApp ==
  \/ Cancel
  \/ Server
  \/ ServerShutdown
  \/ ServerClose
  \/ Worker
  \/ TimerFires
  \/ WorkerReBalance
  \/ WorkerReBalanced
  \/ WorkerBreak
  \/ WorkerStop
  \/ WorkerClosed
  \/ WorkerClose
  \/ Wait
  \/ WaitWrkDone
  \/ WaitWebDone
  \/ WaitReturn

SpecApp == Init /\ [][NextApp]_vars

\* the three are called and every goroutine goes on running: srv.Shutdown,
\* ReBalance and Close return, and a select whose ctx.Done() case is ready
\* again and again takes it in the end
FairApp ==
  /\ WF_vars(Server) /\ WF_vars(ServerShutdown) /\ WF_vars(ServerClose)
  /\ WF_vars(Worker) /\ WF_vars(WorkerReBalance) /\ WF_vars(WorkerReBalanced)
  /\ SF_vars(WorkerBreak)
  /\ WF_vars(WorkerStop) /\ WF_vars(WorkerClosed) /\ WF_vars(WorkerClose)
  /\ WF_vars(Wait) /\ WF_vars(WaitWrkDone \/ WaitWebDone) /\ WF_vars(WaitReturn)

SpecAppLive == Init /\ [][NextApp]_vars /\ FairApp

(***************************************************************************)
(* Properties.                                                             *)
(***************************************************************************)
\* the middleware has handled the request in hand
Handled == stage = "handled"

\* AuthenticationPassed ran the step
Ran(step) == \E i \in 1..Len(auth.steps) : auth.steps[i] = step

\* AuthenticationPassed rejected the request: an error and no token
Rejected == auth.err # NilErr /\ ~auth.bearerToken.set

\* the request reached the middleware as the client sent it
AsSent == before.request = signedAs.request

\* the request reached the middleware with the Authorization header as sent
AuthorizationAsSent ==
  AuthorizationField(before.request) = AuthorizationField(signedAs.request)

\* C1: when AuthenticationPassed reaches the final comparison and the
\* recomputed signature differs from the one the Authorization header
\* carried, it returns a non-nil error and no token.
C1_MismatchIsAnError ==
  (Handled /\ Ran("compare") /\ auth.presented # auth.recomputed) => Rejected

\* C2: when AuthenticationPassed returns an error the middleware rejects the
\* request: h.ServeHTTP is not invoked for it.
C2_ErrorStopsTheRequest ==
  (Handled /\ auth.err # NilErr) => served = 0

\* C3: a request that is not presigned, carries one well-formed Authorization
\* header and a valid X-Amz-Date, and was signed over its signed headers and
\* its body with the pair packBearerToken returned for T under the keypair
\* the Center holds, arrives as it was sent and with its body readable:
\* AuthenticationPassed returns T and a nil error.
C3_SignedRequestAuthenticates ==
  (/\ Handled
   /\ signedAs.rightSecret
   /\ signedAs.key = before.keys.PublicKey
   /\ before.request.header = signedAs.request.header
   /\ before.request.host = signedAs.request.host
   /\ before.request.query = <<>>
   /\ ~Fails(before.request.body))
  => (auth.err = NilErr /\ auth.bearerToken = signedAs.token)

C3_Witness ==
  /\ Handled
  /\ signedAs.rightSecret
  /\ AsSent
  /\ "Via" \in DOMAIN before.request.header
  /\ "Content-Type" \in DOMAIN before.request.header
  /\ ~before.request.body.nil
  /\ auth.bearerToken = signedAs.token
  /\ auth.bearerToken.set
  /\ auth.err = NilErr

\* C4: when the value of a header named in SignedHeaders was changed after
\* the client signed and the Authorization header is as it was sent,
\* AuthenticationPassed rejects the request: an error and no token.
C4_TamperedHeaderIsRejected ==
  (/\ Handled
   /\ tampered \cap {"signedHeader", "host"} # {}
   /\ AuthorizationAsSent)
  => Rejected

\* C5: when the query string selects AWS4-HMAC-SHA256 in X-Amz-Algorithm,
\* AuthenticationPassed returns an error whatever else the request holds,
\* and before it parsed a header, unpacked the credential or read the body.
C5_PresignedIsRefusedFirst ==
  (Handled /\ QueryGet(before.request.query) = AuthScheme)
  => (/\ Rejected
      /\ auth.steps = <<"presigned">>
      /\ auth.request = before.request)

C5_Witness ==
  /\ Handled
  /\ QueryGet(before.request.query) = AuthScheme
  /\ signedAs.rightSecret
  /\ signedAs.key = before.keys.PublicKey
  /\ tampered = {"query"}
  /\ ~before.request.body.nil
  /\ auth.err # NilErr

\* C6: AuthenticationPassed returns an error whenever the request does not
\* carry exactly one Authorization header value.
C6_OneAuthorizationHeader ==
  (Handled /\ Len(AuthorizationField(before.request)) # 1) => Rejected

C6_Witness ==
  /\ Handled
  /\ Len(AuthorizationField(before.request)) = 2
  /\ QueryGet(before.request.query) # AuthScheme
  /\ signedAs.rightSecret
  /\ signedAs.key = before.keys.PublicKey
  /\ auth.err # NilErr

\* C7: round trip: for a token that packBearerToken packed, unpackBearerToken
\* on the returned AccessKeyID under the matching keypair returns the token
\* and the SecretAccessKey packBearerToken returned.
C7_RoundTrip ==
  (/\ packed.called /\ packed.err = NilErr
   /\ unpacked.called
   /\ unpacked.accessKeyID = packed.accessKeyID
   /\ PublicKey(unpacked.key) = packed.key)
  => (/\ unpacked.result.err = NilErr
      /\ unpacked.result.bearerToken = packed.token
      /\ unpacked.result.secretAccessKey = packed.secretAccessKey)

C7_Witness ==
  /\ packed.called /\ packed.err = NilErr
  /\ Len(packed.token.msg) = 2
  /\ unpacked.called
  /\ unpacked.accessKeyID = packed.accessKeyID
  /\ PublicKey(unpacked.key) = packed.key
  /\ unpacked.result.bearerToken = packed.token
  /\ unpacked.result.secretAccessKey = packed.secretAccessKey

\* C8: after AuthenticationPassed returned, on every path, the body of the
\* request yields exactly the bytes it held before the call.
C8_BodyIsKept ==
  Handled => (/\ Yield(request.body) = Yield(before.request.body)
              /\ request.body.nil = before.request.body.nil)

\* a caller is inside EncodeAll or DecodeAll
InCodec(c) == call[c].pc \in {"encoding", "decoding"}

\* C9: two concurrent calls never use the encoder or the decoder at once:
\* the Center holds no mutex, so two calls inside a codec call have to be on
\* two instances.
C9_CodecCallsAreExclusive ==
  \A c, d \in Callers :
    (c # d /\ InCodec(c) /\ InCodec(d)) => call[c].using # call[d].using

StageMessage(st) ==
  CASE st = "hex" -> "failed to decode HEX string"
    [] st = "decrypt" -> "failed to decrypt key ID"
    [] st = "decompress" -> "failed to decompress key ID"
    [] st = "unmarshal" -> "failed to unmarshal embedded bearer token"
    [] OTHER -> ""

\* the first of the four stages that fails on the AccessKeyID under the
\* private key, "done" when none does
FirstFailingStage(key, accessKeyID) ==
  LET h == DecodeString(accessKeyID)
      d == decrypt(key, h.val)
      z == decompress(d.val)
      u == Unmarshal(z.val)
  IN IF h.err # NilErr THEN "hex"
     ELSE IF d.err # NilErr THEN "decrypt"
     ELSE IF z.err # NilErr THEN "decompress"
     ELSE IF u.err # NilErr THEN "unmarshal"
     ELSE "done"

\* C11: unpackBearerToken runs hex-decode, decrypt, decompress, deserialize in
\* that order and ends at the first stage that fails, with that stage's error,
\* no token and an empty SecretAccessKey: an AccessKeyID that is no
\* hexadecimal text fails with the decode error, and the hexadecimal
\* ciphertext of another keypair fails with the decryption error.
C11_FailsAtFirstFailingStage ==
  unpacked.called =>
    LET r == unpacked.result
    IN /\ r.stage = FirstFailingStage(unpacked.key, unpacked.accessKeyID)
       /\ r.stage # "done" =>
            /\ r.err # NilErr /\ r.err[1] = StageMessage(r.stage)
            /\ ~r.bearerToken.set
            /\ r.secretAccessKey = <<>>
       /\ r.stage = "done" => r.err = NilErr /\ r.bearerToken.set
       /\ (\E i \in 1..Len(unpacked.accessKeyID) :
             HexVal(unpacked.accessKeyID[i]) = -1) => r.stage = "hex"
       /\ (/\ packed.called /\ packed.err = NilErr
           /\ unpacked.accessKeyID = packed.accessKeyID
           /\ PublicKey(unpacked.key) # packed.key) => r.stage = "decrypt"

C11_Witness ==
  /\ unpacked.called
  /\ packed.called /\ packed.err = NilErr
  /\ unpacked.accessKeyID = packed.accessKeyID
  /\ unpacked.key # NilKey
  /\ PublicKey(unpacked.key) # packed.key
  /\ unpacked.result.stage = "decrypt"
  /\ unpacked.result.err = <<"failed to decrypt key ID", "crypto/rsa: decryption error">>

\* C12: when AuthenticationPassed succeeds with token T the middleware invokes
\* the downstream handler exactly once, with T in the request's context under
\* BearerTokenContextKey, and the handler is never invoked with a context
\* whose bearer token is absent or nil.
C12_HandlerSeesToken ==
  Handled =>
    /\ (auth.err = NilErr /\ auth.bearerToken.set)
         => (served = 1 /\ ctxToken = auth.bearerToken)
    /\ served > 0 => ctxToken.set

\* the Authorization header of the request the middleware received: its one
\* value follows the grammar and its SignedHeaders list is empty
EmptySignedHeaders(req) ==
  /\ ~IsPresigned(req)
  /\ Len(AuthorizationField(req)) = 1
  /\ RegexpMatches(AuthorizationField(req)[1])
  /\ AuthorizationField(req)[1].signed_header_fields = <<>>

\* C13: a request whose Authorization header follows the grammar with an
\* empty SignedHeaders list is rejected at the signed-headers step, before
\* the date is parsed, the credential unpacked or the body read.
C13_EmptySignedHeadersRejected ==
  (Handled /\ EmptySignedHeaders(before.request))
  => (/\ Rejected
      /\ auth.steps = <<"presigned", "count", "parse", "split">>
      /\ auth.request = before.request)

\* the names of the SignedHeaders list of the request, in lower case
SignedLowerNames(req) ==
  LET names == Split(AuthorizationField(req)[1].signed_header_fields)
  IN {ToLower(names[i][1]) : i \in {j \in 1..Len(names) : Len(names[j]) = 1}}

Pipeline == <<"presigned", "count", "parse", "split", "date", "unpack", "filter",
              "body", "sign", "compare">>

\* the first step before the signing at which the request fails under the
\* keys, "none" when it gets as far as the signer
FirstFailingStep(keys, req) ==
  IF QueryGet(req.query) = AuthScheme THEN "presigned"
  ELSE IF Len(AuthorizationField(req)) # 1 THEN "count"
  ELSE IF ~RegexpMatches(AuthorizationField(req)[1]) THEN "parse"
  ELSE IF Len(Split(AuthorizationField(req)[1].signed_header_fields)) = 0
    THEN "split"
  ELSE IF ParseTime(HeaderGet(req.header, "X-Amz-Date")).err # NilErr THEN "date"
  ELSE IF FirstFailingStage(keys.PrivateKey,
                            AuthorizationField(req)[1].access_key_id) # "done"
    THEN "unpack"
  ELSE IF Fails(req.body) THEN "body"
  ELSE "none"

\* C15: AuthenticationPassed is a strict pipeline: its steps run in the order
\* presigned check, Authorization count, grammar parse, SignedHeaders split,
\* date parse, credential unpack, header filtering, body drain, re-sign,
\* compare; the first failing step ends the call with an error and no later
\* step runs, so the credential is not decrypted and the body is not drained
\* unless every earlier step succeeded.
C15_StrictPipeline ==
  Handled =>
    LET first == FirstFailingStep(before.keys, before.request)
        n == Len(auth.steps)
    IN /\ n >= 1
       /\ auth.steps = SubSeq(Pipeline, 1, n)
       /\ first # "none" => (auth.steps[n] = first /\ auth.err # NilErr)
       /\ first = "none" => n = Len(Pipeline)
       /\ (Ran("compare") /\ auth.presented # auth.recomputed) => auth.err # NilErr
       /\ n < Len(Pipeline) => auth.err # NilErr
       /\ ~Ran("body") => request.body = before.request.body

\* C16: AuthenticationPassed is repeatable: with the same keys a second call
\* on the same request, reading the body the first call restored, has the
\* outcome of the first: the same token and SecretAccessKey on success, the
\* same failure otherwise.
C16_RetryGivesTheSameOutcome ==
  (retry.called /\ retry.keys = before.keys) =>
    /\ retry.out.bearerToken = auth.bearerToken
    /\ retry.out.err = auth.err
    /\ retry.out.steps = auth.steps
    /\ retry.out.recomputed.secret = auth.recomputed.secret

\* C17: AuthenticationPassed returns a token only when every earlier step
\* succeeded and the recomputed signature equals the presented one; on every
\* other path (presigned, header count, parse, date, unpack, body read,
\* signer failure, signature mismatch) the returned token is nil.
C17_TokenOnlyAfterEveryStep ==
  (Handled /\ auth.bearerToken.set) =>
    /\ auth.err = NilErr
    /\ auth.steps = Pipeline
    /\ auth.presented = auth.recomputed
    /\ FirstFailingStep(before.keys, before.request) = "none"
    /\ auth.bearerToken =
         unpackBearerToken(before.keys,
                           AuthorizationField(before.request)[1].access_key_id).bearerToken

C17_Witness ==
  /\ Handled
  /\ auth.bearerToken.set
  /\ auth.steps = Pipeline
  /\ auth.recomputed.service = "iam"
  /\ Len(Yield(before.request.body)) = MaxBodyLen
  /\ "Via" \notin DOMAIN before.request.header
  /\ tampered = {}

\* C20: after any sequence of SetNeoFSKeys calls, failed ones included, the
\* stored NeoFS private key, public key, owner ID and WIF string derive from
\* one key: nothing is stored, or all four belong to the stored private key.
C20_NeoFSFieldsOfOneKey ==
  \/ /\ neofsKeys = NilKeys
     /\ ownerID = NoOwnerID
     /\ wifString = NoWIF
  \/ /\ neofsKeys.PrivateKey # NilKey
     /\ neofsKeys.PublicKey = PublicKey(neofsKeys.PrivateKey)
     /\ ownerID = NewOwnerID(neofsKeys.PublicKey).val
     /\ wifString = WIFEncode(neofsKeys.PrivateKey).val

C19_WorkerClosesThePoolLast ==
  /\ [](/\ app.cli.closes <= 1
        /\ app.cli.state # "open" => app.ctx = "cancelled"
        /\ app.cli.inReBalance <= 1
        /\ app.cli.state # "open" => app.cli.inReBalance = 0
        /\ app.wrkDone > 0 => (app.cli.state = "closed" /\ app.cli.closes = 1)
        /\ app.worker = "done" => app.cli.closes = 1)
  /\ [][app.cli.state # "open" => app'.cli.started = app.cli.started]_vars

C19_Witness ==
  /\ app.worker = "closed"
  /\ app.wrkDone = 0
  /\ app.cli.state = "closed" /\ app.cli.closes = 1
  /\ app.cli.started = MaxReBalance
  /\ app.tick = "stopped"

====
